---- MODULE Spec2Model ----
(***************************************************************************)
(* Startup key reconciliation of app/main.py: startup_event probes the     *)
(* loaded API keys one at a time until the first valid one, hands the rest *)
(* to the background task check_remaining_keys_async, and both merge the   *)
(* invalid keys they found into settings.INVALID_API_KEYS.                 *)
(*                                                                         *)
(* asyncio is cooperative: code between two awaits runs without            *)
(* interleaving.  Each action below is one such segment, from the return   *)
(* of an await to the next await (or to the end of the coroutine).         *)
(*                                                                         *)
(* The other parts of main.py are modelled as components of their own, each *)
(* with its own specification; a specification keeps the variables of the  *)
(* other components at their idle values.                                  *)
(***************************************************************************)
EXTENDS Integers, Sequences, FiniteSets, TLC

\* ---------------------------------------------------------------- bounds
NumKeys == 2
MaxKeys == 3
MaxInvalidTokens == 1
MaxOtherAdds == 1
NumMessages == 3
NumRequests == 3
NumFingerprints == 3
MaxStores == 4
MAX_CACHE_ENTRIES == 2

\* ------------------------------------------------------------- constants
None == 0
Blank == 0
NoResult == None

Keys == 1..NumKeys
Tokens == {Blank} \cup Keys
Outcomes == {"valid", "invalid", "raise"}
ExcTypes == {"ValueError", "RuntimeError"}
Messages == 1..NumMessages
Exceptions == [type : ExcTypes, message : Messages]
Requests == 1..NumRequests
Fingerprints == 1..NumFingerprints
Results == {1, 2}

VARIABLES
    SKIP_CHECK_API_KEY,     \* module constant read from the environment
    api_keys,               \* key_manager.api_keys
    key_stack,              \* key_manager.key_stack
    INVALID_API_KEYS,       \* settings.INVALID_API_KEYS, the "," separated tokens
    save_calls,             \* calls of save_settings() made by the two coroutines
    AVAILABLE_MODELS,       \* GeminiClient.AVAILABLE_MODELS was assigned
    pc,                     \* position of startup_event
    initial_keys,
    first_valid_key,
    initial_invalid_keys,
    keys_to_check_later,
    index,
    router_key,             \* first_valid_key argument of init_router
    router_inited,
    dashboard_inited,
    tasks_created,          \* asyncio.create_task calls
    sweep_pc,               \* position of check_remaining_keys_async
    keys_to_check,
    bg_initial_invalid_keys,
    local_invalid_keys,
    found_valid_keys,
    sweep_i,
    probed,                 \* history of test_api_key calls that have returned
    other_added,            \* keys other tasks have added to INVALID_API_KEYS
    unhandled,              \* exceptions that reach the fallback handler
    handled,                \* the ones global_exception_handler has answered
    responses,              \* the JSONResponse returned for each
    error_log,              \* log("error", ...) records
    active_requests_pool,   \* the handles of ActiveRequestsManager
    req_fp,                 \* fingerprint of each request
    req_pc,                 \* "idle", "owner", "waiting" or "done"
    req_joined,             \* the owner whose handle a waiter joined
    req_result,             \* what each request got
    upstream_calls,         \* upstream calls in flight, per fingerprint
    cursor,                 \* rotation cursor of the key manager
    acquired,               \* positions handed out by the last acquire() calls
    response_cache,         \* entries of ResponseCacheManager
    cache_clock,            \* creation timestamps handed out so far
    store_log               \* fingerprints stored, in order

startup_vars == <<pc, initial_keys, first_valid_key, initial_invalid_keys,
                  keys_to_check_later, index>>
router_vars == <<router_key, router_inited, dashboard_inited>>
sweep_locals == <<local_invalid_keys, found_valid_keys, sweep_i>>
sweep_args == <<keys_to_check, bg_initial_invalid_keys>>
handler_vars == <<unhandled, handled, responses, error_log>>
dedup_vars == <<active_requests_pool, req_fp, req_pc, req_joined, req_result,
                upstream_calls>>
rotation_vars == <<cursor, acquired>>
cache_vars == <<response_cache, cache_clock, store_log>>
component_vars == <<handler_vars, dedup_vars, rotation_vars, cache_vars>>
vars == <<SKIP_CHECK_API_KEY, api_keys, key_stack, INVALID_API_KEYS, save_calls,
          AVAILABLE_MODELS, startup_vars, router_vars, tasks_created, sweep_pc,
          sweep_args, sweep_locals, probed, other_added, component_vars>>

\* --------------------------------------------------------------- helpers
SetOf(s) == {s[i] : i \in DOMAIN s}

SeqsUpTo(S, n) == UNION {[1..m -> S] : m \in 0..n}

\* initial_keys[index + 1 :]
Tail1_OffByOne(s, i) == SubSeq(s, i, Len(s))
Tail1(s, i) == SubSeq(s, i + 1, Len(s))

Min(S) == CHOOSE x \in S : \A y \in S : x <= y

RECURSIVE SortedList(_)
SortedList(S) == IF S = {} THEN <<>>
                 ELSE <<Min(S)>> \o SortedList(S \ {Min(S)})

\* set(k.strip() for k in s.split(",") if k.strip())
ParseInvalidKeys(str) == {str[i] : i \in DOMAIN str} \ {Blank}

\* current_invalid_keys_set.union(set(...))
NewInvalidKeysSet_NoUnion(cur, found) == cur
NewInvalidKeysSet_Overwrite(cur, found) == found
NewInvalidKeysSet(cur, found) == cur \cup found

\* if new != current: settings.INVALID_API_KEYS = ",".join(sorted(list(new)))
MergeChanges_Always(str, found) == TRUE
MergeChanges(str, found) ==
    NewInvalidKeysSet(ParseInvalidKeys(str), found) # ParseInvalidKeys(str)

MergedSetting(str, found) ==
    IF MergeChanges(str, found)
    THEN SortedList(NewInvalidKeysSet(ParseInvalidKeys(str), found))
    ELSE str

\* list(set(initial_invalid_keys + local_invalid_keys))
CombinedInvalidKeys_LocalOnly(init_inv, local_inv) == SetOf(local_inv)
CombinedInvalidKeys(init_inv, local_inv) == SetOf(init_inv \o local_inv)

\* if is_valid:
IsValid_Always(result) == TRUE
IsValid(result) == result = "valid"

\* if key not in key_manager.api_keys:
NotInPool(key, pool) == key \notin SetOf(pool)

\* key_manager.api_keys.append(key)
PoolAppend_AtFront(pool, key) == <<key>> \o pool
PoolAppend(pool, key) == Append(pool, key)

\* try: ... except Exception as e: log("warning", ...)  -- both outcomes of
\* list_available_models fall through to line 299
ContinuesAfterFetch_Uncaught(loaded) == loaded
ContinuesAfterFetch(loaded) == TRUE

\* if not SKIP_CHECK_API_KEY:
ChecksKeys_Always(skip) == TRUE
ChecksKeys(skip) == ~skip

\* if keys_to_check_later: create_task(...)
SpawnsSweep(later) == later # <<>>

\* else: merge initial_invalid_keys into settings.INVALID_API_KEYS
MergesAtStartup_Always(later) == TRUE
MergesAtStartup(later) == ~SpawnsSweep(later)

\* key_manager._reset_key_stack()
ResetKeyStack(keys) == keys

ProbeRecord(phase, key, result) == [phase |-> phase, key |-> key, result |-> result]

\* ------------------------------------------------------------------ Init
\* No exception has reached the fallback handler.
NoResponse == [status_code |-> 0, content |-> [message |-> 0, type |-> "none"]]
HandlerIdle ==
    /\ unhandled = <<>>
    /\ handled = {}
    /\ responses = <<>>
    /\ error_log = <<>>

\* No request is being handled.
DedupIdle ==
    /\ active_requests_pool = {}
    /\ req_fp = <<>>
    /\ req_pc = <<>>
    /\ req_joined = <<>>
    /\ req_result = <<>>
    /\ upstream_calls = <<>>

\* No key has been acquired.
RotationIdle ==
    /\ cursor = 1
    /\ acquired = <<>>

\* Nothing has been cached.
CacheIdle ==
    /\ response_cache = {}
    /\ cache_clock = 0
    /\ store_log = <<>>

Init ==
    /\ HandlerIdle
    /\ DedupIdle
    /\ RotationIdle
    /\ CacheIdle
    /\ SKIP_CHECK_API_KEY \in BOOLEAN
    /\ api_keys \in SeqsUpTo(Keys, MaxKeys)
    /\ key_stack = ResetKeyStack(api_keys)
    /\ INVALID_API_KEYS \in SeqsUpTo(Tokens, MaxInvalidTokens)
    /\ save_calls = 0
    /\ AVAILABLE_MODELS = FALSE
    /\ pc = "start"
    /\ initial_keys = <<>>
    /\ first_valid_key = None
    /\ initial_invalid_keys = <<>>
    /\ keys_to_check_later = <<>>
    /\ index = 0
    /\ router_key = None
    /\ router_inited = FALSE
    /\ dashboard_inited = FALSE
    /\ tasks_created = 0
    /\ sweep_pc = "idle"
    /\ keys_to_check = <<>>
    /\ bg_initial_invalid_keys = <<>>
    /\ local_invalid_keys = <<>>
    /\ found_valid_keys = FALSE
    /\ sweep_i = 0
    /\ probed = <<>>
    /\ other_added = {}

\* --------------------------------------------------------- startup_event
\* Lines 299-351: everything after the model-list fetch, no await inside.
\* pool and stack are the pool and rotation stack on entry.
FinishStartup(pool, stack, fvk, later, inv) ==
    /\ IF ChecksKeys(SKIP_CHECK_API_KEY)
       THEN /\ IF SpawnsSweep(later)
               THEN /\ tasks_created' = tasks_created + 1
                    /\ sweep_pc' = "spawned"
                    /\ keys_to_check' = later
                    /\ bg_initial_invalid_keys' = inv
               ELSE UNCHANGED <<tasks_created, sweep_pc, sweep_args>>
            /\ IF MergesAtStartup(later)
               THEN /\ INVALID_API_KEYS' = MergedSetting(INVALID_API_KEYS, SetOf(inv))
                    /\ save_calls' = IF MergeChanges(INVALID_API_KEYS, SetOf(inv))
                                     THEN save_calls + 1 ELSE save_calls
               ELSE UNCHANGED <<INVALID_API_KEYS, save_calls>>
            /\ api_keys' = pool
            /\ key_stack' = stack
       ELSE /\ api_keys' = pool \o later
            /\ key_stack' = ResetKeyStack(pool \o later)
            /\ UNCHANGED <<INVALID_API_KEYS, save_calls, tasks_created,
                           sweep_pc, sweep_args>>
    /\ router_key' = fvk
    /\ router_inited' = TRUE
    /\ dashboard_inited' = TRUE
    /\ pc' = "done"

\* Lines 260-268: copy and clear the pool, enter the probing loop.
StartupBegin ==
    /\ pc = "start"
    /\ UNCHANGED component_vars
    /\ initial_keys' = api_keys
    /\ first_valid_key' = None
    /\ initial_invalid_keys' = <<>>
    /\ keys_to_check_later' = <<>>
    /\ IF api_keys # <<>>
       THEN /\ index' = 1
            /\ pc' = "probe"
            /\ api_keys' = <<>>
            /\ UNCHANGED <<key_stack, INVALID_API_KEYS, save_calls, router_vars,
                           tasks_created, sweep_pc, sweep_args>>
       ELSE /\ index' = 0
            /\ FinishStartup(<<>>, key_stack, None, <<>>, <<>>)
    /\ UNCHANGED <<SKIP_CHECK_API_KEY, AVAILABLE_MODELS, sweep_locals, probed, other_added>>

\* Lines 268-283: test_api_key(initial_keys[index]) returns or raises.
StartupProbe(result) ==
    /\ pc = "probe"
    /\ UNCHANGED component_vars
    /\ probed' = Append(probed, ProbeRecord("sync", initial_keys[index], result))
    /\ CASE result = "raise" ->
              /\ pc' = "raised"
              /\ UNCHANGED <<api_keys, key_stack, INVALID_API_KEYS, save_calls,
                             first_valid_key, initial_invalid_keys,
                             keys_to_check_later, index, router_vars,
                             tasks_created, sweep_pc, sweep_args>>
         [] result # "raise" /\ IsValid(result) ->
              /\ first_valid_key' = initial_keys[index]
              /\ api_keys' = PoolAppend(api_keys, initial_keys[index])
              /\ key_stack' = ResetKeyStack(PoolAppend(api_keys, initial_keys[index]))
              /\ keys_to_check_later' = Tail1(initial_keys, index)
              /\ pc' = "models"
              /\ UNCHANGED <<INVALID_API_KEYS, save_calls, initial_invalid_keys,
                             index, router_vars, tasks_created, sweep_pc,
                             sweep_args>>
         [] result # "raise" /\ ~IsValid(result) ->
              /\ initial_invalid_keys' = Append(initial_invalid_keys, initial_keys[index])
              /\ UNCHANGED <<first_valid_key, keys_to_check_later>>
              /\ IF index < Len(initial_keys)
                 THEN /\ index' = index + 1
                      /\ pc' = "probe"
                      /\ UNCHANGED <<api_keys, key_stack, INVALID_API_KEYS,
                                     save_calls, router_vars, tasks_created,
                                     sweep_pc, sweep_args>>
                 ELSE /\ index' = index
                      /\ FinishStartup(api_keys, key_stack, None, <<>>,
                                       Append(initial_invalid_keys, initial_keys[index]))
    /\ UNCHANGED <<SKIP_CHECK_API_KEY, AVAILABLE_MODELS, initial_keys, sweep_locals, other_added>>

\* Lines 286-351: list_available_models returns or raises (caught), then the rest.
StartupModels(loaded) ==
    /\ pc = "models"
    /\ UNCHANGED component_vars
    /\ AVAILABLE_MODELS' = (AVAILABLE_MODELS \/ loaded)
    /\ IF ContinuesAfterFetch(loaded)
       THEN FinishStartup(api_keys, key_stack, first_valid_key, keys_to_check_later,
                          initial_invalid_keys)
       ELSE /\ pc' = "raised"
            /\ UNCHANGED <<api_keys, key_stack, INVALID_API_KEYS, save_calls,
                           router_vars, tasks_created, sweep_pc, sweep_args>>
    /\ UNCHANGED <<SKIP_CHECK_API_KEY, initial_keys, first_valid_key,
                   initial_invalid_keys, keys_to_check_later, index,
                   sweep_locals, probed, other_added>>

\* ------------------------------------------- check_remaining_keys_async
\* Lines 212-229: merge and save, no await inside.
SweepFinish(pool, found) ==
    /\ api_keys' = pool
    /\ key_stack' = IF found THEN ResetKeyStack(pool) ELSE key_stack
    /\ INVALID_API_KEYS' =
          MergedSetting(INVALID_API_KEYS,
                        CombinedInvalidKeys(bg_initial_invalid_keys, local_invalid_keys))
    /\ save_calls' =
          IF MergeChanges(INVALID_API_KEYS,
                          CombinedInvalidKeys(bg_initial_invalid_keys, local_invalid_keys))
          THEN save_calls + 1 ELSE save_calls
    /\ sweep_pc' = "done"

\* Lines 192-197: the task starts and awaits the first probe.
SweepBegin ==
    /\ sweep_pc = "spawned"
    /\ UNCHANGED component_vars
    /\ local_invalid_keys' = <<>>
    /\ found_valid_keys' = FALSE
    /\ IF keys_to_check # <<>>
       THEN /\ sweep_i' = 1
            /\ sweep_pc' = "probe"
            /\ UNCHANGED <<api_keys, key_stack, INVALID_API_KEYS, save_calls>>
       ELSE /\ sweep_i' = 0
            /\ SweepFinish(api_keys, FALSE)
    /\ UNCHANGED <<SKIP_CHECK_API_KEY, AVAILABLE_MODELS, startup_vars, router_vars,
                   tasks_created, sweep_args, probed, other_added>>

\* Lines 197-207: test_api_key(keys_to_check[sweep_i]) returns or raises.
SweepProbe(result) ==
    /\ sweep_pc = "probe"
    /\ UNCHANGED component_vars
    /\ probed' = Append(probed, ProbeRecord("sweep", keys_to_check[sweep_i], result))
    /\ CASE result = "raise" ->
              /\ sweep_pc' = "raised"
              /\ UNCHANGED <<api_keys, local_invalid_keys, found_valid_keys>>
         [] result # "raise" /\ IsValid(result) ->
              /\ sweep_pc' = "sleep"
              /\ IF NotInPool(keys_to_check[sweep_i], api_keys)
                 THEN /\ api_keys' = PoolAppend(api_keys, keys_to_check[sweep_i])
                      /\ found_valid_keys' = TRUE
                 ELSE UNCHANGED <<api_keys, found_valid_keys>>
              /\ UNCHANGED local_invalid_keys
         [] result # "raise" /\ ~IsValid(result) ->
              /\ sweep_pc' = "sleep"
              /\ local_invalid_keys' = Append(local_invalid_keys, keys_to_check[sweep_i])
              /\ UNCHANGED <<api_keys, found_valid_keys>>
    /\ UNCHANGED <<SKIP_CHECK_API_KEY, key_stack, INVALID_API_KEYS, save_calls,
                   AVAILABLE_MODELS, startup_vars, router_vars, tasks_created,
                   sweep_args, sweep_i, other_added>>

\* Lines 207-229: asyncio.sleep(0.05) returns; next candidate or the merge.
SweepWake ==
    /\ sweep_pc = "sleep"
    /\ UNCHANGED component_vars
    /\ IF sweep_i < Len(keys_to_check)
       THEN /\ sweep_i' = sweep_i + 1
            /\ sweep_pc' = "probe"
            /\ UNCHANGED <<api_keys, key_stack, INVALID_API_KEYS, save_calls>>
       ELSE /\ sweep_i' = sweep_i
            /\ SweepFinish(api_keys, found_valid_keys)
    /\ UNCHANGED <<SKIP_CHECK_API_KEY, AVAILABLE_MODELS, startup_vars, router_vars,
                   tasks_created, sweep_args, local_invalid_keys, found_valid_keys,
                   probed, other_added>>

\* ------------------------------------------------------------ other tasks
\* Another task (request handling, dashboard) appends a key to the shared
\* settings.INVALID_API_KEYS.  Requests are served once the startup handler
\* has returned, so this interleaves with the background task only.
OtherTaskAddsInvalid(k) ==
    /\ pc = "done"
    /\ UNCHANGED component_vars
    /\ Cardinality(other_added) < MaxOtherAdds
    /\ k \notin ParseInvalidKeys(INVALID_API_KEYS)
    /\ INVALID_API_KEYS' = Append(INVALID_API_KEYS, k)
    /\ other_added' = other_added \cup {k}
    /\ UNCHANGED <<SKIP_CHECK_API_KEY, api_keys, key_stack, save_calls,
                   AVAILABLE_MODELS, startup_vars, router_vars, tasks_created,
                   sweep_pc, sweep_args, sweep_locals, probed>>

\* A step of startup_event or of the background task.
CoroutineStep ==
    \/ StartupBegin
    \/ \E r \in Outcomes : StartupProbe(r)
    \/ \E loaded \in BOOLEAN : StartupModels(loaded)
    \/ SweepBegin
    \/ \E r \in Outcomes : SweepProbe(r)
    \/ SweepWake

Next ==
    \/ CoroutineStep
    \/ \E k \in Keys : OtherTaskAddsInvalid(k)

Spec == Init /\ [][Next]_vars

\* ---------------------------------------------- global_exception_handler
\* startup_event has not run: the values the reconciliation variables have
\* in the specifications of the other components.
ReconcileRest ==
    /\ SKIP_CHECK_API_KEY = FALSE
    /\ INVALID_API_KEYS = <<>>
    /\ save_calls = 0
    /\ AVAILABLE_MODELS = FALSE
    /\ pc = "start"
    /\ initial_keys = <<>>
    /\ first_valid_key = None
    /\ initial_invalid_keys = <<>>
    /\ keys_to_check_later = <<>>
    /\ index = 0
    /\ router_key = None
    /\ router_inited = FALSE
    /\ dashboard_inited = FALSE
    /\ tasks_created = 0
    /\ sweep_pc = "idle"
    /\ keys_to_check = <<>>
    /\ bg_initial_invalid_keys = <<>>
    /\ local_invalid_keys = <<>>
    /\ found_valid_keys = FALSE
    /\ sweep_i = 0
    /\ probed = <<>>
    /\ other_added = {}
ReconcileIdle ==
    /\ ReconcileRest
    /\ api_keys = <<>>
    /\ key_stack = <<>>
reconcile_vars == <<SKIP_CHECK_API_KEY, api_keys, key_stack, INVALID_API_KEYS,
                    save_calls, AVAILABLE_MODELS, startup_vars, router_vars,
                    tasks_created, sweep_pc, sweep_args, sweep_locals, probed,
                    other_added>>

\* str(exc)
StrOf(exc) == exc.message

\* ErrorResponse(message=..., type=...).dict()
ErrorResponse(message, type) == [message |-> message, type |-> type]

\* JSONResponse(status_code=500, content=ErrorResponse(message=str(exc), ...))
HandlerResponse(exc) ==
    [status_code |-> 500, content |-> ErrorResponse(StrOf(exc), "internal_error")]

\* log("error", f"Unhandled exception: {error_message}", extra=...)
HandlerLogRecord(exc) ==
    [level |-> "error", status_code |-> 500, error_message |-> StrOf(exc)]

\* Lines 357-371: the handler answers the i-th unhandled exception.
GlobalExceptionHandler(i) ==
    /\ i \in DOMAIN unhandled
    /\ i \notin handled
    /\ handled' = handled \cup {i}
    /\ responses' = [responses EXCEPT ![i] = HandlerResponse(unhandled[i])]
    /\ error_log' = Append(error_log, HandlerLogRecord(unhandled[i]))
    /\ UNCHANGED <<unhandled, reconcile_vars, dedup_vars, rotation_vars, cache_vars>>

\* Two requests fail with exceptions nothing else handles.
HandlerInit ==
    /\ ReconcileIdle
    /\ DedupIdle
    /\ RotationIdle
    /\ CacheIdle
    /\ unhandled \in [1..2 -> Exceptions]
    /\ handled = {}
    /\ responses = [i \in 1..2 |-> NoResponse]
    /\ error_log = <<>>

HandlerNext == \E i \in 1..2 : GlobalExceptionHandler(i)

HandlerSpec == HandlerInit /\ [][HandlerNext]_vars

\* ------------------------------------------------- active_requests_manager
Handle(fp, owner, waiters) == [fingerprint |-> fp, owner |-> owner, waiters |-> waiters]

HandlesFor(fp) == {h \in active_requests_pool : h.fingerprint = fp}

\* joinOrCreate: is there a handle to join?
CanJoin_Never(fp) == FALSE
CanJoin(fp) == HandlesFor(fp) # {}

\* joinOrCreate(fingerprint): the first caller becomes the owner and issues
\* the upstream call, later callers wait on the owner's handle.
JoinOrCreate(r) ==
    /\ req_pc[r] = "idle"
    /\ IF CanJoin(req_fp[r])
       THEN \E h \in HandlesFor(req_fp[r]) :
               /\ active_requests_pool' =
                     (active_requests_pool \ {h})
                        \cup {Handle(h.fingerprint, h.owner, h.waiters \cup {r})}
               /\ req_pc' = [req_pc EXCEPT ![r] = "waiting"]
               /\ req_joined' = [req_joined EXCEPT ![r] = h.owner]
               /\ UNCHANGED upstream_calls
       ELSE /\ active_requests_pool' =
                  active_requests_pool \cup {Handle(req_fp[r], r, {})}
            /\ req_pc' = [req_pc EXCEPT ![r] = "owner"]
            /\ upstream_calls' =
                  [upstream_calls EXCEPT ![req_fp[r]] = upstream_calls[req_fp[r]] + 1]
            /\ UNCHANGED req_joined
    /\ UNCHANGED <<req_fp, req_result, reconcile_vars, handler_vars, rotation_vars,
                   cache_vars>>

\* complete(fingerprint, result): the owner's call returned; every waiter of
\* its handle is released with that result and the handle is removed.
Complete(r, res) ==
    /\ req_pc[r] = "owner"
    /\ \E h \in active_requests_pool :
          /\ h.owner = r
          /\ active_requests_pool' = active_requests_pool \ {h}
          /\ req_pc' = [q \in Requests |->
                           IF q = r \/ q \in h.waiters THEN "done" ELSE req_pc[q]]
          /\ req_result' = [q \in Requests |->
                               IF q = r \/ q \in h.waiters THEN res ELSE req_result[q]]
    /\ upstream_calls' =
          [upstream_calls EXCEPT ![req_fp[r]] = upstream_calls[req_fp[r]] - 1]
    /\ UNCHANGED <<req_fp, req_joined, reconcile_vars, handler_vars, rotation_vars,
                   cache_vars>>

DedupInit ==
    /\ ReconcileIdle
    /\ HandlerIdle
    /\ RotationIdle
    /\ CacheIdle
    /\ active_requests_pool = {}
    /\ req_fp \in [Requests -> Fingerprints]
    /\ req_pc = [r \in Requests |-> "idle"]
    /\ req_joined = [r \in Requests |-> None]
    /\ req_result = [r \in Requests |-> NoResult]
    /\ upstream_calls = [f \in Fingerprints |-> 0]

DedupNext ==
    \/ \E r \in Requests : JoinOrCreate(r)
    \/ \E r \in Requests, res \in Results : Complete(r, res)

DedupSpec == DedupInit /\ [][DedupNext]_vars

\* ------------------------------------------------------------ key_manager
\* acquire advances the cursor circularly over the current pool snapshot.
NextCursor_NoWrap(c, n) == IF c < n THEN c + 1 ELSE c
NextCursor(c, n) == (c % n) + 1

\* The last n elements of s.
LastN(s, n) == IF Len(s) <= n THEN s ELSE SubSeq(s, Len(s) - n + 1, Len(s))

AcquireRecord(key, size) == [key |-> key, size |-> size]

\* acquire(): the credential under the cursor, and the cursor moves on.
Acquire ==
    /\ key_stack # <<>>
    /\ acquired' = LastN(Append(acquired, AcquireRecord(key_stack[cursor], Len(key_stack))),
                         MaxKeys)
    /\ cursor' = NextCursor(cursor, Len(key_stack))
    /\ UNCHANGED <<reconcile_vars, handler_vars, dedup_vars, cache_vars>>

\* A pool mutation (a credential joins the pool) followed by resetRotation().
AddKey(k) ==
    /\ Len(api_keys) < MaxKeys
    /\ api_keys' = PoolAppend(api_keys, k)
    /\ key_stack' = ResetKeyStack(api_keys')
    /\ cursor' = 1
    /\ UNCHANGED <<SKIP_CHECK_API_KEY, INVALID_API_KEYS, save_calls, AVAILABLE_MODELS,
                   startup_vars, router_vars, tasks_created, sweep_pc, sweep_args,
                   sweep_locals, probed, other_added, acquired, handler_vars, dedup_vars, cache_vars>>

RotationInit ==
    /\ ReconcileRest
    /\ HandlerIdle
    /\ DedupIdle
    /\ CacheIdle
    /\ RotationIdle
    /\ api_keys \in SeqsUpTo(Keys, MaxKeys)
    /\ key_stack = ResetKeyStack(api_keys)

RotationNext ==
    \/ Acquire
    \/ \E k \in Keys : AddKey(k)

RotationSpec == RotationInit /\ [][RotationNext]_vars

\* -------------------------------------------------- response_cache_manager
CacheEntry(fp, created) == [fingerprint |-> fp, created |-> created]

CachedFingerprints == {e.fingerprint : e \in response_cache}

\* Capacity eviction takes the entry with the oldest creation timestamp.
Evictee_Newest(cache) == CHOOSE e \in cache : \A o \in cache : o.created <= e.created
Evictee(cache) == CHOOSE e \in cache : \A o \in cache : e.created <= o.created

\* store(fingerprint, response): insert or overwrite, then evict the single
\* oldest entry if the count exceeds max_entries.
Store(fp) ==
    /\ cache_clock < MaxStores
    /\ cache_clock' = cache_clock + 1
    /\ store_log' = Append(store_log, fp)
    /\ LET inserted == {e \in response_cache : e.fingerprint # fp}
                          \cup {CacheEntry(fp, cache_clock')}
       IN  response_cache' = IF Cardinality(inserted) > MAX_CACHE_ENTRIES
                               THEN inserted \ {Evictee(inserted)}
                               ELSE inserted
    /\ UNCHANGED <<reconcile_vars, handler_vars, dedup_vars, rotation_vars>>

CacheInit ==
    /\ ReconcileIdle
    /\ HandlerIdle
    /\ DedupIdle
    /\ RotationIdle
    /\ CacheIdle

CacheNext == \E fp \in Fingerprints : Store(fp)

CacheSpec == CacheInit /\ [][CacheNext]_vars

\* The two coroutines on their own, validation not skipped, scheduled fairly:
\* the event loop resumes every ready coroutine, and every awaited call
\* (test_api_key, list_available_models, asyncio.sleep) returns or raises.
InitChecked == Init /\ ~SKIP_CHECK_API_KEY
FairSpec == InitChecked /\ [][CoroutineStep]_vars /\ WF_vars(CoroutineStep)

\* ------------------------------------------------------------ properties
ProbesOf(phase) == {i \in DOMAIN probed : probed[i].phase = phase}
ProbedWith(result) == {probed[i].key : i \in {j \in DOMAIN probed : probed[j].result = result}}
Occurrences(s, k) == Cardinality({i \in DOMAIN s : s[i] = k})
ProbeCount(k) == Cardinality({i \in DOMAIN probed : probed[i].key = k})
SomeProbeRaised == \E i \in DOMAIN probed : probed[i].result = "raise"
SyncPhaseOver == pc \in {"models", "done"}
SweepNotStarted == sweep_pc \in {"idle", "spawned"}

\* C1: the synchronous phase probes the initial list in list order and stops at
\* the first valid probe: every entry before it was probed once and recorded as
\* initially invalid, the first valid key is the only pool member when the
\* phase ends and is the key given to init_router, the entries after it are not
\* probed synchronously but handed to the background task, and no key is probed
\* more often than it occurs in the list.
C1_SyncStopsAtFirstValid ==
    /\ \A i \in ProbesOf("sync") :
          /\ i <= Len(initial_keys)
          /\ probed[i].key = initial_keys[i]
          /\ \A j \in ProbesOf("sync") : j < i => probed[j].result = "invalid"
    /\ \A i \in ProbesOf("sweep") : \E j \in ProbesOf("sync") : j < i
    /\ \A k \in Keys : ProbeCount(k) <= Occurrences(initial_keys, k)
    /\ first_valid_key # None =>
          /\ index \in ProbesOf("sync")
          /\ probed[index].result = "valid"
          /\ first_valid_key = initial_keys[index]
          /\ ProbesOf("sync") = 1..index
          /\ initial_invalid_keys = SubSeq(initial_keys, 1, index - 1)
          /\ keys_to_check_later = SubSeq(initial_keys, index + 1, Len(initial_keys))
          /\ (pc = "models" \/ (~SKIP_CHECK_API_KEY /\ SweepNotStarted))
                => api_keys = <<first_valid_key>>
          /\ sweep_pc # "idle"
                => keys_to_check = SubSeq(initial_keys, index + 1, Len(initial_keys))
    /\ router_inited => router_key = first_valid_key

C1_Witness ==
    /\ initial_keys = <<1, 2, 2>>
    /\ probed = <<ProbeRecord("sync", 1, "invalid"), ProbeRecord("sync", 2, "valid"),
                  ProbeRecord("sweep", 2, "valid")>>
    /\ keys_to_check = <<2>>
    /\ router_key = 2
    /\ sweep_pc = "done"

\* C2: once startup_event has cleared the pool, and validation is not skipped,
\* the pool holds no key that a probe of this startup classified invalid and no
\* key of the persisted invalid set.
C2_PoolHasNoKnownInvalid ==
    (~SKIP_CHECK_API_KEY /\ pc # "start") =>
        SetOf(api_keys) \cap (ProbedWith("invalid") \cup ParseInvalidKeys(INVALID_API_KEYS)) = {}

\* C3: both merges are an idempotent set union: with P the persisted set and D
\* the invalid keys the startup discovered, the setting afterwards parses to
\* P \cup D; when P \cup D = P the setting is left as it was and save_settings
\* is not called, otherwise it is called once; and merging the same D again
\* into the result would change nothing.
MergeStepOf(D) ==
    /\ ParseInvalidKeys(INVALID_API_KEYS') = ParseInvalidKeys(INVALID_API_KEYS) \cup D
    /\ IF D \subseteq ParseInvalidKeys(INVALID_API_KEYS)
       THEN INVALID_API_KEYS' = INVALID_API_KEYS /\ save_calls' = save_calls
       ELSE save_calls' = save_calls + 1
    /\ MergedSetting(INVALID_API_KEYS', D) = INVALID_API_KEYS'
IsSweepMerge == sweep_pc # "done" /\ sweep_pc' = "done"
IsStartupMerge == pc # "done" /\ pc' = "done" /\ ~SKIP_CHECK_API_KEY /\ sweep_pc' = "idle"
C3_MergeIsIdempotentUnion ==
    [][/\ IsSweepMerge => MergeStepOf(SetOf(bg_initial_invalid_keys) \cup SetOf(local_invalid_keys))
       /\ IsStartupMerge => MergeStepOf(SetOf(initial_invalid_keys'))]_vars

C3_Witness ==
    /\ sweep_pc = "done"
    /\ save_calls = 1
    /\ INVALID_API_KEYS = <<1, 2>>
    /\ bg_initial_invalid_keys = <<2>>
    /\ local_invalid_keys = <<>>

\* C4: a probe that raises in the background task does not stop it: whenever
\* the task has stopped, every candidate has been probed, rotation was reset if
\* a key was added, and the invalid keys found so far are in the persisted set.
SweepStopped == sweep_pc \in {"done", "raised"}
C4_SweepToleratesProbeFailure ==
    SweepStopped =>
        /\ Cardinality(ProbesOf("sweep")) = Len(keys_to_check)
        /\ found_valid_keys => key_stack = api_keys
        /\ (SetOf(bg_initial_invalid_keys) \cup SetOf(local_invalid_keys))
              \subseteq ParseInvalidKeys(INVALID_API_KEYS)

\* C5: with SKIP_CHECK_API_KEY set no key is probed, the model list is not
\* fetched, no background task is created, and after startup_event the pool is
\* the initial list as loaded.
C5_SkipTrustsInitialList ==
    SKIP_CHECK_API_KEY =>
        /\ probed = <<>>
        /\ ~AVAILABLE_MODELS
        /\ tasks_created = 0
        /\ pc # "raised"
        /\ pc = "done" => api_keys = initial_keys

\* C6: when every synchronous probe returned invalid, startup_event completes:
\* both routers are initialised with an empty pool and first_valid_key None, no
\* background task exists, and unless validation is skipped every key that
\* probed invalid is in the persisted invalid set.
NoKeyValidated ==
    /\ pc \notin {"start", "probe"}
    /\ first_valid_key = None
    /\ ~SomeProbeRaised
C6_NoValidKeyStillStarts ==
    NoKeyValidated =>
        /\ pc = "done"
        /\ router_inited /\ dashboard_inited
        /\ router_key = None
        /\ api_keys = <<>>
        /\ tasks_created = 0 /\ sweep_pc = "idle"
        /\ Len(probed) = Len(initial_keys)
        /\ ~SKIP_CHECK_API_KEY =>
              ProbedWith("invalid") \subseteq ParseInvalidKeys(INVALID_API_KEYS)

C6_Witness ==
    /\ NoKeyValidated
    /\ ~SKIP_CHECK_API_KEY
    /\ Len(initial_keys) = 2
    /\ ProbedWith("invalid") = {1, 2}
    /\ save_calls = 1

\* C7: once startup_event has completed (from then on requests can take keys),
\* the rotation stack has been reset since the last change of the pool.
C7_ResetAfterEveryPoolChange ==
    pc = "done" => key_stack = ResetKeyStack(api_keys)

\* C8: the persisted invalid set only grows: no step removes a key from it,
\* and a key another task added while the coroutines were suspended is still
\* there after every later write of startup_event or the background task.
C8_InvalidSetOnlyGrows ==
    /\ [][ParseInvalidKeys(INVALID_API_KEYS) \subseteq ParseInvalidKeys(INVALID_API_KEYS')]_vars
    /\ [](other_added \subseteq ParseInvalidKeys(INVALID_API_KEYS))

C8_Witness ==
    /\ sweep_pc = "done"
    /\ save_calls = 1
    /\ other_added = {1}
    /\ local_invalid_keys = <<2>>
    /\ ParseInvalidKeys(INVALID_API_KEYS) = {1, 2}

\* C9: without skip mode, from the clearing of the pool on every pool member
\* was probed valid by this startup, the pool's key was probed before it
\* joined, and no entry of the initial list is probed twice: the probes follow
\* the list entry by entry, the background task taking the entries after the
\* first valid one.
C9_ValidatedOnceBeforeEligible ==
    (~SKIP_CHECK_API_KEY /\ pc # "start") =>
        /\ SetOf(api_keys) \subseteq ProbedWith("valid")
        /\ Len(probed) <= Len(initial_keys)
        /\ \A i \in DOMAIN probed : probed[i].key = initial_keys[i]
        /\ \A i \in ProbesOf("sweep") :
              /\ i > index
              /\ probed[i].key = keys_to_check[i - index]

C9_Witness ==
    /\ ~SKIP_CHECK_API_KEY
    /\ initial_keys = <<1, 2, 1>>
    /\ api_keys = <<2>>
    /\ sweep_pc = "done"
    /\ Len(probed) = 3

\* C10: when a key validated synchronously and validation is not skipped, the
\* reconciliation ends (unless a probe raises) in a state where every entry of
\* the initial list has been probed, the pool holds exactly the keys with a
\* valid probe, rotation has been reset since the last addition, and every key
\* with an invalid probe is in the persisted invalid set.
ReconciledFinal ==
    /\ pc = "done"
    /\ sweep_pc \in {"idle", "done"}
    /\ Len(probed) = Len(initial_keys)
    /\ SetOf(api_keys) = ProbedWith("valid")
    /\ key_stack = ResetKeyStack(api_keys)
    /\ ProbedWith("invalid") \subseteq ParseInvalidKeys(INVALID_API_KEYS)
C10_ReconciliationCompletes ==
    (~SKIP_CHECK_API_KEY /\ first_valid_key # None) ~> (ReconciledFinal \/ SomeProbeRaised)

C10_Witness ==
    /\ ~SKIP_CHECK_API_KEY
    /\ ReconciledFinal
    /\ Len(probed) = 3
    /\ first_valid_key = initial_keys[1]
    /\ ProbedWith("invalid") # {}
    /\ ProbedWith("invalid") \cap ProbedWith("valid") = {}
    /\ save_calls = 1

\* C11: the fallback handler answers every unhandled exception with status
\* 500 and type internal_error, and the answer does not depend on the
\* exception's message: two exceptions of the same type get the same response.
C11_ResponseHidesDetail ==
    \A i \in handled :
        /\ responses[i].status_code = 500
        /\ responses[i].content.type = "internal_error"
        /\ \A j \in handled :
              unhandled[i].type = unhandled[j].type => responses[i] = responses[j]

\* C12: the model-list fetch is best-effort: whether list_available_models
\* returned or raised, the step that follows it completes startup_event with
\* the same pool, the same key given to init_router, the same scheduling of the
\* background task and both routers initialised.
C12_ModelFetchBestEffort ==
    [][(pc = "models" /\ pc' # "models") =>
          /\ pc' = "done"
          /\ router_inited' /\ dashboard_inited'
          /\ router_key' = first_valid_key
          /\ api_keys' = IF SKIP_CHECK_API_KEY THEN api_keys \o keys_to_check_later
                                              ELSE api_keys
          /\ (tasks_created' = 1) = (~SKIP_CHECK_API_KEY /\ keys_to_check_later # <<>>)
          /\ tasks_created' \in {0, 1}
          /\ tasks_created' = 1 =>
                (sweep_pc' = "spawned" /\ keys_to_check' = keys_to_check_later)
          /\ tasks_created' = 0 => sweep_pc' = "idle"]_vars

C12_Witness ==
    /\ pc = "done"
    /\ ~SKIP_CHECK_API_KEY
    /\ first_valid_key # None
    /\ ~AVAILABLE_MODELS
    /\ router_inited
    /\ router_key = first_valid_key
    /\ sweep_pc = "spawned"

\* C13: per fingerprint there is at most one handle and at most one upstream
\* call in flight; a request that arrives while the owner is still working
\* waits on the owner's handle and issues no call; and a released waiter has
\* the result of the owner it joined.
C13_RequestDeduplication ==
    /\ \A h1, h2 \in active_requests_pool :
          h1.fingerprint = h2.fingerprint => h1 = h2
    /\ \A f \in DOMAIN upstream_calls :
          /\ upstream_calls[f] <= 1
          /\ upstream_calls[f] = Cardinality({r \in DOMAIN req_pc :
                                                req_pc[r] = "owner" /\ req_fp[r] = f})
    /\ \A r \in DOMAIN req_pc :
          /\ req_pc[r] = "waiting" =>
                /\ req_pc[req_joined[r]] = "owner"
                /\ req_fp[req_joined[r]] = req_fp[r]
                /\ \E h \in active_requests_pool : h.owner = req_joined[r] /\ r \in h.waiters
          /\ (req_pc[r] = "done" /\ req_joined[r] # None) =>
                /\ req_pc[req_joined[r]] = "done"
                /\ req_result[r] = req_result[req_joined[r]]
          /\ req_pc[r] = "done" => req_result[r] \in Results

C13_Witness ==
    /\ DOMAIN req_pc = Requests
    /\ \A r \in Requests : req_pc[r] = "done" /\ req_fp[r] = 1
    /\ req_joined[2] = 1 /\ req_joined[3] = 1
    /\ req_result[3] = 2

\* C14: the acquire() calls made since the last pool mutation, looking at the
\* last N of them for a pool of N credentials, return no pool member more often
\* than it occurs in the pool, and once there are N of them they have returned
\* every pool member exactly once.
SinceMutation == SelectSeq(acquired, LAMBDA a : a.size = Len(key_stack))
LastSweep == LastN(SinceMutation, Len(key_stack))
ReturnedIn(s, k) == Cardinality({i \in DOMAIN s : s[i].key = k})
C14_RotationVisitsAll ==
    \A k \in Keys :
        /\ ReturnedIn(LastSweep, k) <= Occurrences(key_stack, k)
        /\ Len(LastSweep) = Len(key_stack) =>
              ReturnedIn(LastSweep, k) = Occurrences(key_stack, k)

C14_Witness ==
    /\ key_stack = <<2, 1, 2>>
    /\ cursor = 3
    /\ Len(LastSweep) = 3
    /\ LastSweep[1].key = 2 /\ LastSweep[2].key = 2 /\ LastSweep[3].key = 1

\* C15: the cache never holds more than max_entries entries, every retained
\* entry carries the time of the last store of its fingerprint, and every
\* fingerprint that was stored but is no longer cached was last stored before
\* every retained one (the retained entries are the most recently inserted).
Max(S) == CHOOSE x \in S : \A y \in S : y <= x
LastStore(fp) == Max({i \in DOMAIN store_log : store_log[i] = fp})
C15_CacheKeepsMostRecent ==
    /\ Cardinality(response_cache) <= MAX_CACHE_ENTRIES
    /\ Cardinality(response_cache) = Min({MAX_CACHE_ENTRIES, Cardinality(SetOf(store_log))})
    /\ CachedFingerprints \subseteq SetOf(store_log)
    /\ \A e \in response_cache :
          /\ e.created = LastStore(e.fingerprint)
          /\ \A g \in SetOf(store_log) \ CachedFingerprints : LastStore(g) < e.created

C15_Witness ==
    /\ Cardinality(SetOf(store_log)) > MAX_CACHE_ENTRIES
    /\ Cardinality(response_cache) = MAX_CACHE_ENTRIES
    /\ store_log[1] \notin CachedFingerprints
    /\ store_log[Len(store_log)] \in CachedFingerprints

\* C16: the background task probes keys_to_check in list order, one candidate
\* at a time; a probe is issued only by the task waiting at its probe, its
\* result is applied in the same step, and the task returns to a probe only
\* from its start or from the pacing sleep; the pool is a subsequence of the
\* initial list.
RECURSIVE IsSubsequence(_, _)
IsSubsequence(s, t) ==
    IF s = <<>> THEN TRUE
    ELSE IF t = <<>> THEN FALSE
    ELSE IF Head(s) = Head(t) THEN IsSubsequence(Tail(s), Tail(t))
    ELSE IsSubsequence(s, Tail(t))
SweepProbes == SelectSeq(probed, LAMBDA p : p.phase = "sweep")
KeysOf(ps) == [i \in DOMAIN ps |-> ps[i].key]
SweepOrdered ==
    /\ Len(SweepProbes) <= Len(keys_to_check)
    /\ \A i \in DOMAIN SweepProbes : SweepProbes[i].key = keys_to_check[i]
    /\ sweep_pc = "probe" => sweep_i = Len(SweepProbes) + 1
    /\ sweep_pc = "sleep" => sweep_i = Len(SweepProbes)
    /\ local_invalid_keys = KeysOf(SelectSeq(SweepProbes, LAMBDA p : p.result = "invalid"))
    /\ \A i \in DOMAIN SweepProbes :
          SweepProbes[i].result = "valid" => SweepProbes[i].key \in SetOf(api_keys)
    /\ pc # "start" => IsSubsequence(api_keys, initial_keys)
SweepOneAtATime ==
    /\ (Len(probed') > Len(probed) /\ probed'[Len(probed')].phase = "sweep") =>
          /\ sweep_pc = "probe"
          /\ sweep_pc' \in {"sleep", "raised"}
          /\ probed'[Len(probed')].key = keys_to_check[sweep_i]
    /\ (sweep_pc' = "probe" /\ sweep_pc # "probe") => sweep_pc \in {"spawned", "sleep"}
    /\ (sweep_pc = "probe" /\ sweep_pc' # "probe") => Len(probed') = Len(probed) + 1
C16_SweepProbesInOrder == []SweepOrdered /\ [][SweepOneAtATime]_vars

C16_Witness ==
    /\ sweep_pc = "done"
    /\ Len(SweepProbes) = 2
    /\ SweepProbes[1].result = "invalid" /\ SweepProbes[2].result = "valid"
    /\ Len(api_keys) = 2
    /\ local_invalid_keys = <<keys_to_check[1]>>

\* C17: over one startup and the background task it may spawn, save_settings
\* is called at most once for the invalid set, and only when every probe is
\* over (no probe follows it); at most one background task is created, and the
\* step that creates it neither merges nor saves.
SavedOnceAfterProbes ==
    /\ save_calls <= 1
    /\ tasks_created <= 1
    /\ save_calls = 1 =>
          /\ pc = "done"
          /\ sweep_pc \in {"idle", "done"}
          /\ sweep_pc = "idle" => tasks_created = 0
          /\ sweep_pc = "done" => Len(SweepProbes) = Len(keys_to_check)
SaveIsLast ==
    /\ save_calls = 1 => (probed' = probed /\ save_calls' = 1)
    /\ tasks_created' # tasks_created =>
          /\ save_calls' = save_calls
          /\ INVALID_API_KEYS' = INVALID_API_KEYS
    /\ (save_calls' # save_calls /\ pc # "done") => tasks_created' = 0
C17_PersistedExactlyOnce == []SavedOnceAfterProbes /\ [][SaveIsLast]_vars

C17_Witness ==
    /\ save_calls = 1
    /\ tasks_created = 1
    /\ sweep_pc = "done"
    /\ initial_invalid_keys # <<>>
    /\ local_invalid_keys # <<>>

\* C18: once startup_event has cleared the pool, no credential occurs twice in
\* key_manager.api_keys, whatever the initial list and in both modes.
NoDuplicates(s) == \A i, j \in DOMAIN s : s[i] = s[j] => i = j
C18_PoolHasNoDuplicates ==
    pc # "start" => NoDuplicates(api_keys)

\* C19: with SKIP_CHECK_API_KEY set, no step of startup_event writes
\* settings.INVALID_API_KEYS, calls save_settings or creates the background
\* task, and when startup_event completes the keys that probed invalid are
\* neither in the pool nor in the persisted invalid set.
SkipStartupStep ==
    (SKIP_CHECK_API_KEY /\ pc # "done") =>
        /\ INVALID_API_KEYS' = INVALID_API_KEYS
        /\ save_calls' = save_calls
        /\ tasks_created' = 0
        /\ sweep_pc' = "idle"
        /\ pc' = "done" =>
              ProbedWith("invalid")'
                 \cap (SetOf(api_keys') \cup ParseInvalidKeys(INVALID_API_KEYS')) = {}
C19_SkipLeavesInvalidSetAlone == [][SkipStartupStep]_vars

====
